---- MODULE Spec2Model ----
(***************************************************************************)
(* Model of export_pdf.js: a static asset server (startServer) and the     *)
(* export orchestrator (the async IIFE) that starts it, drives a headless  *)
(* browser, takes a diagnostics snapshot, captures a PDF and tears down.   *)
(*                                                                         *)
(* Spec       : the orchestrator.  Every awaited operation is an           *)
(*              environment step that either resolves or rejects.          *)
(* ServerSpec : the request handler of the asset server, one request at a  *)
(*              time, over a bounded set of request URLs and file systems. *)
(***************************************************************************)
EXTENDS Integers, Sequences, FiniteSets, TLC

VARIABLES
    pc,            \* position of the async IIFE (the await it is suspended on)
    server,        \* "none" | "listening" | "failed" | "closed"
    browser,       \* "none" | "running" | "closed"
    navFailed,     \* the catch block of page.goto ran (lines 71-75)
    timedOut,      \* let timedOut (line 78)
    dom,           \* the page's DOM at the moment page.evaluate ran
    diagnostics,   \* <<>> before line 89 completes, then <<record>>
    pdfRuns,       \* number of times page.pdf was invoked
    filesWritten,  \* number of times page.pdf completed (output file written)
    thrownAt,      \* step whose rejection escaped the IIFE, or "none"
    exitCode,      \* <<>> while the process runs, <<status>> once it exited
    trace,         \* the calls the IIFE has made so far, in order
    elapsed,       \* polling intervals spent in the current timed wait
    log,           \* lines the page observers wrote to the console
    files,         \* file system: readable absolute path -> bytes
    reqPhase,      \* "idle" | "incoming" | "reading" | "responded" | "crashed"
    reqUrl,        \* req.url of the request being handled
    filePath,      \* const filePath (line 17)
    response,      \* <<>> or <<[status, headers, body]>>
    inflight       \* concurrent requests: slot -> [phase, url, filePath, response]

orchVars == <<pc, server, browser, navFailed, timedOut, dom, diagnostics,
              pdfRuns, filesWritten, thrownAt, exitCode, trace, elapsed>>
srvVars  == <<files, reqPhase, reqUrl, filePath, response, inflight>>
vars     == <<pc, server, browser, navFailed, timedOut, dom, diagnostics,
              pdfRuns, filesWritten, thrownAt, exitCode, trace, elapsed, log,
              files, reqPhase, reqUrl, filePath, response, inflight>>

(***************************************************************************)
(* Bounds                                                                  *)
(***************************************************************************)
MaxCards == 2      \* most .exhibit-box elements a DOM holds
MaxPages == 1      \* most .page elements a DOM holds
MaxUrlLen == 4     \* most tokens of a request URL after its leading "/"
MaxInFlight == 2   \* most requests the server handles at the same time
MaxEvents == 2     \* most page events delivered to the observers in a run

(***************************************************************************)
(* Timeouts, in milliseconds                                               *)
(***************************************************************************)
NavTimeoutMs == 60000      \* page.goto, line 70
RenderTimeoutMs == 45000   \* page.waitForFunction, line 82
PollMs == 500              \* polling interval of page.waitForFunction, line 82

(***************************************************************************)
(* JavaScript values and the DOM seen by page.evaluate                     *)
(***************************************************************************)
Undefined == [kind |-> "undefined"]
Str(s)    == [kind |-> "string", val |-> s]
Null      == [kind |-> "null"]
Element(t) == [kind |-> "element", textContent |-> t]

Texts == {"", "Loading"}
Elements == {Null} \cup {Element(t) : t \in Texts}

DomStates == [cards : 0..MaxCards, pages : 0..MaxPages,
              loading : Elements, status : Elements]

NoDom == [cards |-> 0, pages |-> 0, loading |-> Null, status |-> Null]

\* el?.textContent
OptionalTextContent(el) ==
    IF el = Null THEN Undefined ELSE Str(el.textContent)

\* a || b on an undefined-or-string a and a string b
OrElse(a, b) ==
    IF a = Undefined \/ a = Str("") THEN b ELSE a

NoLoading == Str("(no #loading element)")
NoStatus  == Str("(no #status element)")

\* the function passed to page.evaluate (title and bodySnippet are only printed)
Evaluate(d) ==
    [cardCount   |-> d.cards,
     pageCount   |-> d.pages,
     loadingText |-> OrElse(OptionalTextContent(d.loading), NoLoading),
     statusText  |-> OrElse(OptionalTextContent(d.status), NoStatus)]

\* the decision with "and" in place of "or"
ShouldFail_And(t, diag) == t /\ diag.cardCount = 0

\* the condition of the if at line 109
ShouldFail(t, diag) == t \/ diag.cardCount = 0

(***************************************************************************)
(* The orchestrator                                                        *)
(***************************************************************************)
OrchInit ==
    /\ pc = "startServer"
    /\ server = "none"
    /\ browser = "none"
    /\ navFailed = FALSE
    /\ timedOut = FALSE
    /\ dom = NoDom
    /\ diagnostics = <<>>
    /\ pdfRuns = 0
    /\ filesWritten = 0
    /\ thrownAt = "none"
    /\ exitCode = <<>>
    /\ trace = <<>>
    /\ elapsed = 0
    /\ log = <<>>

\* a rejection that no try block of the IIFE catches: the IIFE's promise rejects
Throw(step) ==
    /\ pc = step
    /\ pc' = "caught"
    /\ thrownAt' = step

\* line 39, resolved: 'listening' callback of server.listen
StartServerOk ==
    /\ pc = "startServer"
    /\ server' = "listening"
    /\ pc' = "launch"
    /\ trace' = trace \o <<"startServer">>
    /\ UNCHANGED elapsed
    /\ UNCHANGED <<srvVars, log>>
    /\ UNCHANGED <<browser, navFailed, timedOut, dom, diagnostics, pdfRuns,
                   filesWritten, thrownAt, exitCode>>

\* the catch of lines 40-43 without its process.exit(1)
StartServerFail_NoExit ==
    /\ pc = "startServer"
    /\ server' = "failed"
    /\ pc' = "launch"
    /\ trace' = trace \o <<"startServer">>
    /\ UNCHANGED elapsed
    /\ UNCHANGED <<srvVars, log>>
    /\ UNCHANGED <<browser, navFailed, timedOut, dom, diagnostics, pdfRuns,
                   filesWritten, thrownAt, exitCode>>

\* line 39, rejected ('error' before listening), and the catch of lines 40-43
StartServerFail ==
    /\ pc = "startServer"
    /\ server' = "failed"
    /\ pc' = "exited"
    /\ exitCode' = <<1>>
    /\ trace' = trace \o <<"startServer">>
    /\ UNCHANGED elapsed
    /\ UNCHANGED <<srvVars, log>>
    /\ UNCHANGED <<browser, navFailed, timedOut, dom, diagnostics, pdfRuns,
                   filesWritten, thrownAt>>

\* line 46
LaunchOk ==
    /\ pc = "launch"
    /\ browser' = "running"
    /\ pc' = "newPage"
    /\ trace' = trace \o <<"launch">>
    /\ UNCHANGED elapsed
    /\ UNCHANGED <<srvVars, log>>
    /\ UNCHANGED <<server, navFailed, timedOut, dom, diagnostics, pdfRuns,
                   filesWritten, thrownAt, exitCode>>

LaunchThrow ==
    /\ Throw("launch")
    /\ trace' = trace \o <<"launch">>
    /\ UNCHANGED elapsed
    /\ UNCHANGED <<srvVars, log>>
    /\ UNCHANGED <<server, browser, navFailed, timedOut, dom, diagnostics,
                   pdfRuns, filesWritten, exitCode>>

\* line 51
NewPageOk ==
    /\ pc = "newPage"
    /\ pc' = "setViewport"
    /\ trace' = trace \o <<"newPage">>
    /\ UNCHANGED elapsed
    /\ UNCHANGED <<srvVars, log>>
    /\ UNCHANGED <<server, browser, navFailed, timedOut, dom, diagnostics,
                   pdfRuns, filesWritten, thrownAt, exitCode>>

NewPageThrow ==
    /\ Throw("newPage")
    /\ trace' = trace \o <<"newPage">>
    /\ UNCHANGED elapsed
    /\ UNCHANGED <<srvVars, log>>
    /\ UNCHANGED <<server, browser, navFailed, timedOut, dom, diagnostics,
                   pdfRuns, filesWritten, exitCode>>

\* line 52, then the three page.on registrations of lines 55-65
SetViewportOk ==
    /\ pc = "setViewport"
    /\ pc' = "goto"
    /\ trace' = trace \o <<"setViewport">>
    /\ UNCHANGED elapsed
    /\ UNCHANGED <<srvVars, log>>
    /\ UNCHANGED <<server, browser, navFailed, timedOut, dom, diagnostics,
                   pdfRuns, filesWritten, thrownAt, exitCode>>

SetViewportThrow ==
    /\ Throw("setViewport")
    /\ trace' = trace \o <<"setViewport">>
    /\ UNCHANGED elapsed
    /\ UNCHANGED <<srvVars, log>>
    /\ UNCHANGED <<server, browser, navFailed, timedOut, dom, diagnostics,
                   pdfRuns, filesWritten, exitCode>>

\* line 70 still pending: time passes, up to the navigation timeout
GotoTick ==
    /\ pc = "goto"
    /\ elapsed * PollMs < NavTimeoutMs
    /\ elapsed' = elapsed + 1
    /\ UNCHANGED <<srvVars, log>>
    /\ UNCHANGED <<pc, server, browser, navFailed, timedOut, dom, diagnostics,
                   pdfRuns, filesWritten, thrownAt, exitCode, trace>>

\* line 70 resolved; line 78 initialises timedOut
GotoOk ==
    /\ pc = "goto"
    /\ pc' = "waitForFunction"
    /\ timedOut' = FALSE
    /\ trace' = trace \o <<"goto">>
    /\ elapsed' = 0
    /\ UNCHANGED <<srvVars, log>>
    /\ UNCHANGED <<server, browser, navFailed, dom, diagnostics, pdfRuns,
                   filesWritten, thrownAt, exitCode>>

\* page.goto without the try/catch of lines 69-75
GotoFail_Fatal ==
    /\ Throw("goto")
    /\ navFailed' = TRUE
    /\ trace' = trace \o <<"goto">>
    /\ elapsed' = 0
    /\ UNCHANGED <<srvVars, log>>
    /\ UNCHANGED <<server, browser, timedOut, dom, diagnostics, pdfRuns,
                   filesWritten, exitCode>>

\* line 70 rejected (60 s timeout or any other error), caught at lines 71-75
GotoFail ==
    /\ pc = "goto"
    /\ navFailed' = TRUE
    /\ pc' = "waitForFunction"
    /\ timedOut' = FALSE
    /\ trace' = trace \o <<"goto">>
    /\ elapsed' = 0
    /\ UNCHANGED <<srvVars, log>>
    /\ UNCHANGED <<server, browser, dom, diagnostics, pdfRuns, filesWritten,
                   thrownAt, exitCode>>

\* line 80 still pending: a poll found no card, before the render timeout
WaitTick ==
    /\ pc = "waitForFunction"
    /\ elapsed * PollMs < RenderTimeoutMs
    /\ elapsed' = elapsed + 1
    /\ UNCHANGED <<srvVars, log>>
    /\ UNCHANGED <<pc, server, browser, navFailed, timedOut, dom, diagnostics,
                   pdfRuns, filesWritten, thrownAt, exitCode, trace>>

\* line 80 resolved
WaitOk ==
    /\ pc = "waitForFunction"
    /\ pc' = "evaluate"
    /\ trace' = trace \o <<"waitForFunction">>
    /\ elapsed' = 0
    /\ UNCHANGED <<srvVars, log>>
    /\ UNCHANGED <<server, browser, navFailed, timedOut, dom, diagnostics,
                   pdfRuns, filesWritten, thrownAt, exitCode>>

\* a timed-out wait that aborts at once, without the diagnostics of line 89
WaitFail_SkipDiagnostics ==
    /\ pc = "waitForFunction"
    /\ timedOut' = TRUE
    /\ pc' = "failClose"
    /\ trace' = trace \o <<"waitForFunction">>
    /\ elapsed' = 0
    /\ UNCHANGED <<srvVars, log>>
    /\ UNCHANGED <<server, browser, navFailed, dom, diagnostics, pdfRuns,
                   filesWritten, thrownAt, exitCode>>

\* line 80 rejected (45 s timeout or any other error), caught at lines 84-86
WaitFail ==
    /\ pc = "waitForFunction"
    /\ timedOut' = TRUE
    /\ pc' = "evaluate"
    /\ trace' = trace \o <<"waitForFunction">>
    /\ elapsed' = 0
    /\ UNCHANGED <<srvVars, log>>
    /\ UNCHANGED <<server, browser, navFailed, dom, diagnostics, pdfRuns,
                   filesWritten, thrownAt, exitCode>>

\* lines 89-109: the snapshot of the DOM as it is now, then the decision
EvaluateOk ==
    /\ pc = "evaluate"
    /\ \E d \in DomStates :
          /\ dom' = d
          /\ diagnostics' = <<Evaluate(d)>>
          /\ pc' = IF ShouldFail(timedOut, Evaluate(d))
                   THEN "failClose" ELSE "settle"
    /\ trace' = trace \o <<"evaluate">>
    /\ UNCHANGED elapsed
    /\ UNCHANGED <<srvVars, log>>
    /\ UNCHANGED <<server, browser, navFailed, timedOut, pdfRuns,
                   filesWritten, thrownAt, exitCode>>

EvaluateThrow ==
    /\ Throw("evaluate")
    /\ trace' = trace \o <<"evaluate">>
    /\ UNCHANGED elapsed
    /\ UNCHANGED <<srvVars, log>>
    /\ UNCHANGED <<server, browser, navFailed, timedOut, dom, diagnostics,
                   pdfRuns, filesWritten, exitCode>>

\* lines 115-117: browser.close() resolved, server.close(), process.exit(1)
FailCloseOk ==
    /\ pc = "failClose"
    /\ browser' = "closed"
    /\ server' = "closed"
    /\ pc' = "exited"
    /\ exitCode' = <<1>>
    /\ trace' = trace \o <<"browserClose", "serverClose">>
    /\ UNCHANGED elapsed
    /\ UNCHANGED <<srvVars, log>>
    /\ UNCHANGED <<navFailed, timedOut, dom, diagnostics, pdfRuns,
                   filesWritten, thrownAt>>

\* line 115: browser.close() rejected
FailCloseThrow ==
    /\ Throw("failClose")
    /\ trace' = trace \o <<"browserClose">>
    /\ UNCHANGED elapsed
    /\ UNCHANGED <<srvVars, log>>
    /\ UNCHANGED <<server, browser, navFailed, timedOut, dom, diagnostics,
                   pdfRuns, filesWritten, exitCode>>

\* line 120: the 1.5 s timer fires
Settle ==
    /\ pc = "settle"
    /\ pc' = "pdf"
    /\ trace' = trace \o <<"settle">>
    /\ UNCHANGED elapsed
    /\ UNCHANGED <<srvVars, log>>
    /\ UNCHANGED <<server, browser, navFailed, timedOut, dom, diagnostics,
                   pdfRuns, filesWritten, thrownAt, exitCode>>

\* line 127 resolved
PdfOk ==
    /\ pc = "pdf"
    /\ pdfRuns' = pdfRuns + 1
    /\ filesWritten' = filesWritten + 1
    /\ pc' = "close"
    /\ trace' = trace \o <<"pdf">>
    /\ UNCHANGED elapsed
    /\ UNCHANGED <<srvVars, log>>
    /\ UNCHANGED <<server, browser, navFailed, timedOut, dom, diagnostics,
                   thrownAt, exitCode>>

\* line 127 rejected
PdfThrow ==
    /\ Throw("pdf")
    /\ pdfRuns' = pdfRuns + 1
    /\ trace' = trace \o <<"pdf">>
    /\ UNCHANGED elapsed
    /\ UNCHANGED <<srvVars, log>>
    /\ UNCHANGED <<server, browser, navFailed, timedOut, dom, diagnostics,
                   filesWritten, exitCode>>

\* the success teardown without the server.close() of line 136
CloseOk_ServerLeftOpen ==
    /\ pc = "close"
    /\ browser' = "closed"
    /\ pc' = "done"
    /\ trace' = trace \o <<"browserClose">>
    /\ UNCHANGED elapsed
    /\ UNCHANGED <<srvVars, log>>
    /\ UNCHANGED <<server, navFailed, timedOut, dom, diagnostics, pdfRuns,
                   filesWritten, thrownAt, exitCode>>

\* the success teardown ending in process.exit(1) like the failure branch
CloseOk_Exit1 ==
    /\ pc = "close"
    /\ browser' = "closed"
    /\ server' = "closed"
    /\ pc' = "exited"
    /\ exitCode' = <<1>>
    /\ trace' = trace \o <<"browserClose", "serverClose">>
    /\ UNCHANGED elapsed
    /\ UNCHANGED <<srvVars, log>>
    /\ UNCHANGED <<navFailed, timedOut, dom, diagnostics, pdfRuns,
                   filesWritten, thrownAt>>

\* lines 135-140: browser.close() resolved, server.close(), the IIFE returns
CloseOk ==
    /\ pc = "close"
    /\ browser' = "closed"
    /\ server' = "closed"
    /\ pc' = "done"
    /\ trace' = trace \o <<"browserClose", "serverClose">>
    /\ UNCHANGED elapsed
    /\ UNCHANGED <<srvVars, log>>
    /\ UNCHANGED <<navFailed, timedOut, dom, diagnostics, pdfRuns,
                   filesWritten, thrownAt, exitCode>>

\* line 135: browser.close() rejected
CloseThrow ==
    /\ Throw("close")
    /\ trace' = trace \o <<"browserClose">>
    /\ UNCHANGED elapsed
    /\ UNCHANGED <<srvVars, log>>
    /\ UNCHANGED <<server, browser, navFailed, timedOut, dom, diagnostics,
                   pdfRuns, filesWritten, exitCode>>

\* the IIFE returned; once neither the listening socket nor the browser
\* process keeps the event loop alive, node exits with status 0
NaturalExit ==
    /\ pc = "done"
    /\ server # "listening"
    /\ browser # "running"
    /\ pc' = "exited"
    /\ exitCode' = <<0>>
    /\ UNCHANGED trace
    /\ UNCHANGED elapsed
    /\ UNCHANGED <<srvVars, log>>
    /\ UNCHANGED <<server, browser, navFailed, timedOut, dom, diagnostics,
                   pdfRuns, filesWritten, thrownAt>>

\* the .catch handler calling process.exit() without a status
TopLevelCatch_Exit0 ==
    /\ pc = "caught"
    /\ pc' = "exited"
    /\ exitCode' = <<0>>
    /\ UNCHANGED trace
    /\ UNCHANGED elapsed
    /\ UNCHANGED <<srvVars, log>>
    /\ UNCHANGED <<server, browser, navFailed, timedOut, dom, diagnostics,
                   pdfRuns, filesWritten, thrownAt>>

\* lines 142-145: the .catch handler of the IIFE's promise
TopLevelCatch ==
    /\ pc = "caught"
    /\ pc' = "exited"
    /\ exitCode' = <<1>>
    /\ UNCHANGED trace
    /\ UNCHANGED elapsed
    /\ UNCHANGED <<srvVars, log>>
    /\ UNCHANGED <<server, browser, navFailed, timedOut, dom, diagnostics,
                   pdfRuns, filesWritten, thrownAt>>

(***************************************************************************)
(* The asset server: request URLs, paths and the file system               *)
(*                                                                         *)
(* A URL is a sequence of tokens.  "/", "?" and "." are the characters;    *)
(* "%2F" is the escape sequence of "/"; "%" is a percent sign that is not  *)
(* followed by two hexadecimal digits (no token begins with two);          *)
(* "booklet", "html" and "PNG" are runs of letters.                        *)
(***************************************************************************)
Tokens == {"/", "?", ".", "%", "%2F", "booklet", "html", "PNG"}

\* req.url: always starts with "/"
Urls == UNION {{<<"/">> \o s : s \in [1..n -> Tokens]} : n \in 0..MaxUrlLen}

\* __dirname, the folder given to startServer (line 39)
Folder == <<"/", "app">>

BookletHtml == <<"booklet", ".", "html">>

\* files that may exist; the last one lies outside the folder
AllFiles ==
    (<< <<"app">>, BookletHtml >>           :> "bytes-booklet") @@
    (<< <<"app">>, <<"html", ".", "PNG">> >> :> "bytes-image")  @@
    (<< <<"app">>, <<".", "html">> >>        :> "bytes-dotfile") @@
    (<< <<"app">>, <<"html">> >>             :> "bytes-noext")   @@
    (<< <<"html">> >>                        :> "bytes-outside")

Restrict(f, S) == [x \in S |-> f[x]]

FsConfigs ==
    { AllFiles,
      Restrict(AllFiles, DOMAIN AllFiles \ {<< <<"app">>, BookletHtml >>}),
      Restrict(AllFiles, {}) }

\* req.url.split('?')[0]
RECURSIVE BeforeQuery(_)
BeforeQuery(s) ==
    IF s = <<>> \/ Head(s) = "?" THEN <<>>
    ELSE <<Head(s)>> \o BeforeQuery(Tail(s))

\* decodeURIComponent: ok = FALSE when it throws URIError
RECURSIVE decodeURIComponent(_)
decodeURIComponent(s) ==
    IF s = <<>> THEN [ok |-> TRUE, val |-> <<>>]
    ELSE IF Head(s) = "%" THEN [ok |-> FALSE, val |-> <<>>]
    ELSE LET rest == decodeURIComponent(Tail(s))
             c    == IF Head(s) = "%2F" THEN "/" ELSE Head(s)
         IN  [ok |-> rest.ok, val |-> IF rest.ok THEN <<c>> \o rest.val ELSE <<>>]

\* line 17 without the default document
JoinArg_NoDefault(urlPath) == urlPath

\* the second argument of path.join at line 17
JoinArg(urlPath) ==
    IF urlPath = <<"/">> THEN BookletHtml ELSE urlPath

\* a path string cut at its "/" characters
RECURSIVE Segments(_, _, _)
Segments(s, cur, acc) ==
    IF s = <<>> THEN Append(acc, cur)
    ELSE IF Head(s) = "/" THEN Segments(Tail(s), <<>>, Append(acc, cur))
    ELSE Segments(Tail(s), Append(cur, Head(s)), acc)

\* path.normalize on the segments of an absolute path
RECURSIVE Resolve(_, _)
Resolve(segs, out) ==
    IF segs = <<>> THEN out
    ELSE LET h == Head(segs) IN
         IF h = <<>> \/ h = <<".">> THEN Resolve(Tail(segs), out)
         ELSE IF h = <<".", ".">>
              THEN Resolve(Tail(segs),
                           IF out = <<>> THEN <<>> ELSE SubSeq(out, 1, Len(out) - 1))
              ELSE Resolve(Tail(segs), Append(out, h))

\* path.join(folder, p) for an absolute folder: folder + "/" + p, normalized;
\* a trailing "/" is kept unless the result is the root
PathJoin(folder, p) ==
    LET joined == folder \o <<"/">> \o p
        segs   == Resolve(Segments(joined, <<>>, <<>>), <<>>)
    IN  [segs |-> segs,
         trailing |-> joined[Len(joined)] = "/" /\ segs # <<>>]

\* fs.readFile fails on a missing file, on a directory, and on "file/"
Readable(fs, fp) == ~fp.trailing /\ fp.segs \in DOMAIN fs

\* path.extname: from the last "." of the base name; empty when there is no
\* ".", when the base name starts with its only last ".", or when it is ".."
LastDot(name) ==
    LET ds == {i \in 1..Len(name) : name[i] = "."}
    IN  IF ds = {} THEN 0 ELSE CHOOSE i \in ds : \A j \in ds : j <= i

ExtName(fp) ==
    IF fp.segs = <<>> THEN <<>>
    ELSE LET name == fp.segs[Len(fp.segs)]
             d    == LastDot(name)
         IN  IF d = 0 \/ d = 1 \/ name = <<".", ".">> THEN <<>>
             ELSE SubSeq(name, d, Len(name))

\* String.prototype.toLowerCase, token by token
LowerToken(t) == IF t = "PNG" THEN "png" ELSE t
ToLowerCase(s) == [i \in 1..Len(s) |-> LowerToken(s[i])]

\* the MIME table of lines 7-13
MIME ==
    (<<".", "html">> :> "text/html") @@
    (<<".", "css">>  :> "text/css") @@
    (<<".", "js">>   :> "application/javascript") @@
    (<<".", "png">>  :> "image/png") @@
    (<<".", "svg">>  :> "image/svg+xml")

\* line 20
MimeFor(fp) ==
    LET ext == ToLowerCase(ExtName(fp))
    IN  IF ext \in DOMAIN MIME THEN MIME[ext] ELSE "application/octet-stream"

NotFound == [status |-> 404, headers |-> {}, body |-> "Not found"]

\* the readFile callback of lines 18-23
Respond(fs, fp) ==
    IF ~Readable(fs, fp) THEN NotFound
    ELSE [status  |-> 200,
          headers |-> {<<"Content-Type", MimeFor(fp)>>},
          body    |-> fs[fp.segs]]

NoPath == [segs |-> <<>>, trailing |-> FALSE]

\* concurrent requests (sockets) and a request slot nothing arrived on
Slots == 1..MaxInFlight

IdleRequest ==
    [phase |-> "idle", url |-> <<>>, filePath |-> NoPath, response |-> <<>>]

NoneInFlight == [i \in Slots |-> IdleRequest]

SrvIdle ==
    /\ reqPhase = "idle"
    /\ reqUrl = <<>>
    /\ filePath = NoPath
    /\ response = <<>>
    /\ inflight = NoneInFlight

\* lines 16-18: the request listener runs up to the call of fs.readFile
HandleRequest ==
    /\ server = "listening"
    /\ reqPhase = "incoming"
    /\ LET dec == decodeURIComponent(BeforeQuery(reqUrl)) IN
          /\ dec.ok
          /\ filePath' = PathJoin(Folder, JoinArg(dec.val))
    /\ reqPhase' = "reading"
    /\ UNCHANGED <<trace, elapsed, log, inflight>>
    /\ UNCHANGED <<files, reqUrl, response, pc, server, browser, navFailed,
                   timedOut, dom, diagnostics, pdfRuns, filesWritten,
                   thrownAt, exitCode>>

\* line 16 throws URIError inside the listener: nothing catches it, no
\* response is sent and node terminates the process with status 1
HandleRequestThrow ==
    /\ server = "listening"
    /\ reqPhase = "incoming"
    /\ ~decodeURIComponent(BeforeQuery(reqUrl)).ok
    /\ reqPhase' = "crashed"
    /\ pc' = "exited"
    /\ exitCode' = <<1>>
    /\ UNCHANGED <<trace, elapsed, log, inflight>>
    /\ UNCHANGED <<files, reqUrl, filePath, response, server, browser,
                   navFailed, timedOut, dom, diagnostics, pdfRuns,
                   filesWritten, thrownAt>>

\* lines 18-23: the callback of fs.readFile
ReadFileDone ==
    /\ reqPhase = "reading"
    /\ response' = <<Respond(files, filePath)>>
    /\ reqPhase' = "responded"
    /\ UNCHANGED <<trace, elapsed, log, inflight>>
    /\ UNCHANGED <<files, reqUrl, filePath, pc, server, browser, navFailed,
                   timedOut, dom, diagnostics, pdfRuns, filesWritten,
                   thrownAt, exitCode>>

ServerNext == HandleRequest \/ HandleRequestThrow \/ ReadFileDone

(***************************************************************************)
(* Specifications                                                          *)
(***************************************************************************)
Init == OrchInit /\ files \in FsConfigs /\ SrvIdle

Next ==
    \/ StartServerOk \/ StartServerFail
    \/ LaunchOk \/ LaunchThrow
    \/ NewPageOk \/ NewPageThrow
    \/ SetViewportOk \/ SetViewportThrow
    \/ GotoTick \/ GotoOk \/ GotoFail
    \/ WaitTick \/ WaitOk \/ WaitFail
    \/ EvaluateOk \/ EvaluateThrow
    \/ FailCloseOk \/ FailCloseThrow
    \/ Settle
    \/ PdfOk \/ PdfThrow
    \/ CloseOk \/ CloseThrow
    \/ NaturalExit
    \/ TopLevelCatch

Spec == Init /\ [][Next]_vars

\* every awaited operation eventually resolves, rejects or times out, and
\* the event loop runs the callbacks that are due
FairSpec == Init /\ [][Next]_vars /\ WF_vars(Next)

\* the server is listening (line 28 called back) and a request has arrived
ServerInit ==
    /\ files \in FsConfigs
    /\ reqPhase = "incoming"
    /\ reqUrl \in Urls
    /\ filePath = NoPath
    /\ response = <<>>
    /\ inflight = NoneInFlight
    /\ pc = "launch"
    /\ server = "listening"
    /\ browser = "none"
    /\ navFailed = FALSE
    /\ timedOut = FALSE
    /\ dom = NoDom
    /\ diagnostics = <<>>
    /\ pdfRuns = 0
    /\ filesWritten = 0
    /\ thrownAt = "none"
    /\ exitCode = <<>>
    /\ trace = <<"startServer">>
    /\ elapsed = 0
    /\ log = <<>>

ServerSpec == ServerInit /\ [][ServerNext]_vars

(***************************************************************************)
(* The page observers of lines 55-65                                       *)
(***************************************************************************)
UrlLogMax == 120    \* substring(0, 120), line 64

\* String.prototype.substring(0, n)
Substring0(str, n) == SubSeq(str, 1, IF Len(str) < n THEN Len(str) ELSE n)

ConsoleTypes == {"error", "warn", "log"}

\* URLs of failed requests: a short one and one longer than the cut
FailedUrls == { <<"u">>, [i \in 1..(UrlLogMax + 1) |-> "x"] }

\* req.failure(): null or an object with an errorText
Failures == {Null, [kind |-> "failure", errorText |-> "net::ERR_FAILED"]}

\* req.failure()?.errorText
OptionalErrorText(f) == IF f = Null THEN Undefined ELSE Str(f.errorText)

\* the observers are attached, the page exists and the IIFE is suspended
ObserversLive ==
    /\ pc \in {"goto", "waitForFunction", "evaluate", "failClose", "settle",
               "pdf", "close"}
    /\ browser = "running"
    /\ Len(log) < MaxEvents

ObserverFrame ==
    UNCHANGED <<pc, server, browser, navFailed, timedOut, dom, diagnostics,
                pdfRuns, filesWritten, thrownAt, exitCode, trace, elapsed,
                srvVars>>

\* lines 55-61
ConsoleEvent ==
    /\ ObserversLive
    /\ \E type \in ConsoleTypes :
          log' = Append(log,
                   [prefix |-> IF type = "error" THEN "  [browser error]"
                               ELSE IF type = "warn" THEN "  [browser warn]"
                               ELSE "  [browser]",
                    args |-> <<Str("text")>>])
    /\ ObserverFrame

\* line 62
PageErrorEvent ==
    /\ ObserversLive
    /\ log' = Append(log, [prefix |-> "  [page exception]",
                           args |-> <<Str("message")>>])
    /\ ObserverFrame

\* lines 63-65 with req.failure().errorText: a null failure throws inside
\* the observer and the uncaught TypeError ends the process
RequestFailedEvent_NoOptionalChaining ==
    /\ ObserversLive
    /\ \E u \in FailedUrls, f \in Failures :
          IF f = Null
          THEN /\ pc' = "exited"
               /\ exitCode' = <<1>>
               /\ UNCHANGED log
          ELSE /\ log' = Append(log, [prefix |-> "  [request failed]",
                                      args |-> <<Str(Substring0(u, UrlLogMax)),
                                                 Str(f.errorText)>>])
               /\ UNCHANGED <<pc, exitCode>>
    /\ UNCHANGED <<server, browser, navFailed, timedOut, dom, diagnostics,
                   pdfRuns, filesWritten, thrownAt, trace, elapsed, srvVars>>

\* lines 63-65
RequestFailedEvent ==
    /\ ObserversLive
    /\ \E u \in FailedUrls, f \in Failures :
          log' = Append(log, [prefix |-> "  [request failed]",
                              args |-> <<Str(Substring0(u, UrlLogMax)),
                                         OptionalErrorText(f)>>])
    /\ ObserverFrame

\* the orchestrator together with the events of its page
ObsNext ==
    \/ StartServerOk \/ StartServerFail
    \/ LaunchOk \/ LaunchThrow
    \/ NewPageOk \/ NewPageThrow
    \/ SetViewportOk \/ SetViewportThrow
    \/ GotoTick \/ GotoOk \/ GotoFail
    \/ WaitTick \/ WaitOk \/ WaitFail
    \/ EvaluateOk \/ EvaluateThrow
    \/ FailCloseOk \/ FailCloseThrow
    \/ Settle
    \/ PdfOk \/ PdfThrow
    \/ CloseOk \/ CloseThrow
    \/ NaturalExit
    \/ TopLevelCatch
    \/ ConsoleEvent \/ PageErrorEvent \/ RequestFailedEvent

\* the start of a run; the files on disk play no part in the orchestration
ObsInit == OrchInit /\ files = AllFiles /\ SrvIdle

ObsSpec == ObsInit /\ [][ObsNext]_vars

(***************************************************************************)
(* The asset server under concurrent requests: the listener of lines 15-18 *)
(* and the readFile callback of lines 18-23 of different requests          *)
(* interleave in any order.                                                *)
(***************************************************************************)
\* request URLs of the concurrent specification: the root, a path with a
\* malformed escape, an existing image, the default document, a missing file
ConcUrls ==
    { <<"/">>,
      <<"/", "%">>,
      <<"/", "html", ".", "PNG">>,
      <<"/">> \o BookletHtml,
      <<"/", "PNG">> }

ProcessAlive == server = "listening" /\ pc # "exited"

ConcFrame ==
    UNCHANGED <<files, reqPhase, reqUrl, filePath, response, server, browser,
                navFailed, timedOut, dom, diagnostics, pdfRuns, filesWritten,
                thrownAt, trace, elapsed, log>>

\* a request arrives on a free connection
Arrive(i, u) ==
    /\ ProcessAlive
    /\ inflight[i].phase \in {"idle", "responded"}
    /\ inflight' = [inflight EXCEPT
                      ![i] = [phase |-> "incoming", url |-> u,
                              filePath |-> NoPath, response |-> <<>>]]
    /\ UNCHANGED <<pc, exitCode>>
    /\ ConcFrame

\* lines 16-18 for request i
Listener(i) ==
    /\ ProcessAlive
    /\ inflight[i].phase = "incoming"
    /\ LET dec == decodeURIComponent(BeforeQuery(inflight[i].url)) IN
          /\ dec.ok
          /\ inflight' = [inflight EXCEPT
                            ![i].phase = "reading",
                            ![i].filePath = PathJoin(Folder, JoinArg(dec.val))]
    /\ UNCHANGED <<pc, exitCode>>
    /\ ConcFrame

\* line 16 throws for request i: the uncaught URIError ends the process,
\* and with it every other request in flight
ListenerThrow(i) ==
    /\ ProcessAlive
    /\ inflight[i].phase = "incoming"
    /\ ~decodeURIComponent(BeforeQuery(inflight[i].url)).ok
    /\ inflight' = [inflight EXCEPT ![i].phase = "crashed"]
    /\ pc' = "exited"
    /\ exitCode' = <<1>>
    /\ ConcFrame

\* lines 18-23 for request i
ReadDone(i) ==
    /\ ProcessAlive
    /\ inflight[i].phase = "reading"
    /\ inflight' = [inflight EXCEPT
                      ![i].phase = "responded",
                      ![i].response =
                          Append(@, Respond(files, inflight[i].filePath))]
    /\ UNCHANGED <<pc, exitCode>>
    /\ ConcFrame

ConcNext ==
    \E i \in Slots :
        \/ \E u \in ConcUrls : Arrive(i, u)
        \/ Listener(i)
        \/ ListenerThrow(i)
        \/ ReadDone(i)

\* the server is listening and no request has arrived
ConcInit ==
    /\ files \in FsConfigs
    /\ SrvIdle
    /\ pc = "launch"
    /\ server = "listening"
    /\ browser = "none"
    /\ navFailed = FALSE
    /\ timedOut = FALSE
    /\ dom = NoDom
    /\ diagnostics = <<>>
    /\ pdfRuns = 0
    /\ filesWritten = 0
    /\ thrownAt = "none"
    /\ exitCode = <<>>
    /\ trace = <<"startServer">>
    /\ elapsed = 0
    /\ log = <<>>

ConcSpec == ConcInit /\ [][ConcNext]_vars

(***************************************************************************)
(* Properties                                                              *)
(***************************************************************************)
Exited == pc = "exited"
Snapshot == diagnostics[1]
HasSnapshot == diagnostics # <<>>

\* C1: whenever the process has exited, a server that was started has been
\* closed and a browser that was launched has been closed.
C1_ReleasedAtExit ==
    Exited => server # "listening" /\ browser # "running"

\* C2: when startServer rejects, the process exits with status 1 and the
\* browser launch step is never executed.
C2_ServerFailureExits ==
    server = "failed" =>
        /\ Exited
        /\ exitCode = <<1>>
        /\ browser = "none"
        /\ thrownAt = "none"

C2_Witness == server = "failed" /\ Exited /\ exitCode = <<1>>

\* C3: when the render wait timed out or the snapshot counts zero cards, the
\* run ends with no PDF capture, the browser closed, the server stopped and
\* exit status 1.
C3_FailureTeardown ==
    (Exited /\ (timedOut \/ (HasSnapshot /\ Snapshot.cardCount = 0))) =>
        /\ pdfRuns = 0
        /\ filesWritten = 0
        /\ browser = "closed"
        /\ server = "closed"
        /\ exitCode = <<1>>

TableType(ext) ==
    CASE ext = <<".", "html">> -> "text/html"
      [] ext = <<".", "css">>  -> "text/css"
      [] ext = <<".", "js">>   -> "application/javascript"
      [] ext = <<".", "png">>  -> "image/png"
      [] ext = <<".", "svg">>  -> "image/svg+xml"
      [] OTHER                 -> "application/octet-stream"

UnderFolder(fp) == fp.segs # <<>> /\ fp.segs[1] = <<"app">>

Handled == reqPhase \in {"responded", "crashed"}

\* C5: a handled request whose path is a readable file under the folder got
\* status 200, the file's bytes and the content type of the extension table;
\* a handled request whose path is not a readable file got status 404.
C5_Responses ==
    Handled =>
        /\ response # <<>>
        /\ (Readable(files, filePath) /\ UnderFolder(filePath)) =>
              /\ response[1].status = 200
              /\ response[1].body = files[filePath.segs]
              /\ response[1].headers =
                    {<<"Content-Type", TableType(ToLowerCase(ExtName(filePath)))>>}
        /\ ~Readable(files, filePath) => response[1].status = 404

\* the response the handler gives to a URL that decodes
ResponseTo(fs, url) ==
    Respond(fs, PathJoin(Folder, JoinArg(decodeURIComponent(BeforeQuery(url)).val)))

\* C6: a request for "/", with or without a query string, is answered, and
\* with the status, body and content type of a request for "/booklet.html"
\* on the same file system.
C6_RootIsDefaultDocument ==
    BeforeQuery(reqUrl) = <<"/">> =>
        /\ reqPhase # "crashed"
        /\ reqPhase = "responded" =>
              response = <<ResponseTo(files, <<"/">> \o BookletHtml)>>

C6_Witness ==
    /\ reqPhase = "responded"
    /\ reqUrl = <<"/", "?", "%">>
    /\ response[1].status = 200
    /\ response[1].body = "bytes-booklet"

\* C7: once a step after the server start has thrown, the only step that
\* follows is the top-level handler, which exits with status 1; nothing else
\* of the run changes and the exit status is never 0.
C7_CaughtAtTopLevel ==
    [][thrownAt' # "none" =>
          /\ server' # "none"
          /\ pc' \in {"caught", "exited"}
          /\ pc' = "exited" => exitCode' = <<1>>
          /\ thrownAt # "none" =>
                /\ pc = "caught" /\ pc' = "exited"
                /\ UNCHANGED <<server, browser, navFailed, timedOut, dom,
                               diagnostics, pdfRuns, filesWritten, thrownAt,
                               trace>>
      ]_vars

C7_Witness == thrownAt = "pdf" /\ Exited /\ exitCode = <<1>>

\* C8: the step in which page.goto fails leaves the process running at the
\* render wait with the timed-out flag unset and nothing thrown.
C8_NavigationFailureNonFatal ==
    [][(~navFailed /\ navFailed') =>
          /\ pc' = "waitForFunction"
          /\ timedOut' = FALSE
          /\ exitCode' = <<>>
          /\ thrownAt' = "none"
      ]_vars

C8_Witness ==
    /\ navFailed /\ Exited /\ exitCode = <<0>>
    /\ filesWritten = 1 /\ HasSnapshot /\ Snapshot.cardCount > 0

\* C9: exit status 0 implies no render timeout, a positive card count, a
\* completed PDF capture and browser and server closed; a run that met a
\* server start failure, a render timeout, zero cards or an uncaught error
\* exits with status 1.
C9_ExitZeroOnlyOnSuccess ==
    /\ exitCode = <<0>> =>
          /\ ~timedOut
          /\ HasSnapshot /\ Snapshot.cardCount > 0
          /\ pdfRuns = 1 /\ filesWritten = 1
          /\ browser = "closed" /\ server = "closed"
          /\ thrownAt = "none"
    /\ (Exited /\ (\/ server = "failed"
                   \/ timedOut
                   \/ (HasSnapshot /\ Snapshot.cardCount = 0)
                   \/ thrownAt # "none")) => exitCode = <<1>>

C9_Witness ==
    /\ Exited /\ exitCode = <<1>>
    /\ timedOut /\ HasSnapshot /\ Snapshot.cardCount > 0
    /\ browser = "closed" /\ server = "closed"

\* C10: the snapshot holds, for #loading and for #status, the element's text
\* content when the element is present and the placeholder when it is absent.
C10_OptionalElements ==
    HasSnapshot =>
        /\ Snapshot.loadingText =
              IF dom.loading = Null THEN NoLoading
              ELSE Str(dom.loading.textContent)
        /\ Snapshot.statusText =
              IF dom.status = Null THEN NoStatus
              ELSE Str(dom.status.textContent)

\* the order in which the IIFE makes its calls (lines 39-136)
StepOrder ==
    <<"startServer", "launch", "newPage", "setViewport", "goto",
      "waitForFunction", "evaluate", "settle", "pdf", "browserClose",
      "serverClose">>

Rank(step) == CHOOSE i \in 1..Len(StepOrder) : StepOrder[i] = step

Called(step) == \E i \in 1..Len(trace) : trace[i] = step

\* the calls made so far follow the fixed order, none of them twice
InFixedOrder ==
    \A i, j \in 1..Len(trace) : i < j => Rank(trace[i]) < Rank(trace[j])

\* the capture and the teardown come after a snapshot, the server is
\* stopped after the browser was closed
DecisionAfterSnapshot ==
    /\ (Called("settle") \/ Called("pdf") \/ Called("browserClose")) => HasSnapshot
    /\ HasSnapshot => Called("evaluate")
    /\ Called("serverClose") => Called("browserClose")
    /\ Called("pdf") => ~(timedOut \/ Snapshot.cardCount = 0)

\* C11 as stated: the calls follow the fixed order, each at most once; every
\* finished run that reached the render wait has extracted a snapshot, and
\* before the decision; the browser is closed before the server is stopped.
C11_AsStated ==
    /\ InFixedOrder
    /\ DecisionAfterSnapshot
    /\ (Exited /\ Called("waitForFunction")) =>
          Called("evaluate") /\ HasSnapshot

\* C11 amended: as above, but of a finished run that reached the render
\* wait only that it called the extraction exactly once, timed out or not;
\* the snapshot exists unless that call rejected.
C11_FixedOrder ==
    /\ InFixedOrder
    /\ DecisionAfterSnapshot
    /\ (Exited /\ Called("waitForFunction")) =>
          /\ Called("evaluate")
          /\ HasSnapshot <=> thrownAt # "evaluate"

C11_Witness ==
    /\ Exited /\ timedOut /\ HasSnapshot
    /\ trace = <<"startServer", "launch", "newPage", "setViewport", "goto",
                 "waitForFunction", "evaluate", "browserClose", "serverClose">>

\* C12: under any interleaving, handling a request never ends the server
\* process, no request is left without its response, and a request that was
\* answered got exactly one response, 200 or 404, the one its own URL and
\* the file it resolves to determine.
C12_IndependentRequests ==
    /\ pc # "exited"
    /\ \A i \in Slots :
          /\ inflight[i].phase # "crashed"
          /\ Len(inflight[i].response) <= 1
          /\ inflight[i].phase = "responded" =>
                /\ Len(inflight[i].response) = 1
                /\ inflight[i].response[1].status \in {200, 404}
                /\ inflight[i].response[1] = ResponseTo(files, inflight[i].url)

\* C13: the navigation wait and the render wait never outlast their
\* timeouts, and every run eventually exits with status 0 or 1.
C13_Terminates ==
    /\ [](/\ pc = "goto" => elapsed * PollMs <= NavTimeoutMs
          /\ pc = "waitForFunction" => elapsed * PollMs <= RenderTimeoutMs)
    /\ <>(Exited /\ exitCode \in {<<0>>, <<1>>})

C13_Witness ==
    /\ Exited /\ exitCode = <<0>> /\ thrownAt = "none"
    /\ server = "closed" /\ browser = "closed"
    /\ Called("pdf") /\ Called("serverClose")

\* C14: a step in which an observer writes a line changes nothing of the
\* orchestrator's control state, and every step that changes the control
\* state is a step the orchestrator takes when no event is ever delivered.
C14_ObserversPassive ==
    [][/\ log' # log => UNCHANGED orchVars
       /\ orchVars' # orchVars => Next
      ]_vars

C14_Witness ==
    /\ Len(log) = MaxEvents
    /\ \E i \in 1..Len(log) : log[i].prefix = "  [request failed]"
                              /\ log[i].args[2] = Undefined
    /\ Exited /\ exitCode = <<0>> /\ filesWritten = 1

====
